---- MODULE Spec2Model ----
(***************************************************************************)
(* The service-dispatch core of the engine: asyncy/processing/Services.py. *)
(*                                                                         *)
(*   Spec       one execute(story, line) call, from chain resolution to    *)
(*              the transport's outcome                                    *)
(*   SpecChain  resolve_chain(story, line), one loop iteration per step    *)
(*   SpecHttp   execute_http(story, line, chain, command_conf), called as   *)
(*              the unit tests call it                                     *)
(*   SpecInline execute_inline(story, line, chain, command_conf), called   *)
(*              as the unit tests call it, and the server I/O loop         *)
(*   SpecWhen   when(s, story, line), called as the unit tests call it     *)
(*   SpecWhens     two when calls of one application, interleaved at       *)
(*                 the await of the broker request                         *)
(*   SpecRegistry  register_internal and is_internal                       *)
(*   SpecService   Service.start, then execute and when calls              *)
(*   SpecConf      get_command_conf(story, chain), called repeatedly       *)
(*   SpecInlineSeq execute_inline for line after line of one story         *)
(*   SpecFair      Spec, with every step of execute eventually taken       *)
(*   SpecChainFair SpecChain, with the loop running on                     *)
(*                                                                         *)
(* An action is the code between two suspension points (await) of the      *)
(* single-threaded event loop. Collaborators that are not part of          *)
(* Services.py (the handlers, Containers, HttpUtils.fetch_with_retry) are  *)
(* the actions that return their value.                                    *)
(***************************************************************************)
EXTENDS Naturals, Integers, Sequences, FiniteSets, TLC

\* Longest parent path of a generated story tree.
MaxDepth == 3

\* How many arguments a generated command declares at most.
MaxArgs == 2

\* How many register_internal calls a run makes at most.
MaxRegistrations == 3

\* How many times get_command_conf is called on the same story and chain.
MaxRepeats == 2

\* How many lines of one story are dispatched to execute_inline at most.
MaxInlineCalls == 3

VARIABLES
    tree,               \* story.tree: line id -> line
    services,           \* story.app.services
    internal_services,  \* Services.internal_services
    ln,                 \* the line handed to the operation
    rc_pc,              \* resolve_chain: "loop" | "owner" | "returned" | "error"
    rc_chain,           \* resolve_chain: chain (a deque, leftmost first)
    rc_line,            \* resolve_chain: parent_line (a line id)
    rc_cursor,          \* get_owner: line (a line id)
    rc_visited,         \* history: the lines whose element is in rc_chain
    pc,                 \* where the dispatch of ln stands
    chain,              \* the chain held by the running operation
    command_conf,       \* the command_conf held by the running operation
    container,          \* <<v>> once start_container returned v
    inner,              \* history: <<v>> once the awaited handler or transport returned v
    calls,              \* history: the operations and collaborators called, in order
    handler_calls,      \* the calls made to internal handlers
    http_calls,         \* the calls made to HttpUtils.fetch_with_retry (and, as
                        \* history, the three bags behind each)
    req_writes,         \* what was written to story.context[server_request]
    callbacks,          \* the callbacks added to story.context[server_io_loop]
    finished,           \* how many times server_request.finish ran
    result,             \* <<v>> once the operation returned v
    err,                \* <<e>> once the operation raised e
    subscriptions,      \* the calls made to story.app.add_subscription
    sub,                \* when: <<[sub_id, body]>> once it has built them
    start_pc,           \* Service.start: the statement it is at
    registrations,      \* history: the calls made to register_internal
    whens               \* the when calls that run side by side: id -> locals

rc_vars == <<rc_pc, rc_chain, rc_line, rc_cursor, rc_visited>>
world == <<tree, services, internal_services, ln>>
when_vars == <<subscriptions, sub>>
proc_vars == <<start_pc, registrations, whens>>
run_vars == <<pc, chain, command_conf, container, inner, calls, handler_calls, http_calls,
              req_writes, callbacks, finished, result, err>>

----------------------------------------------------------------------------
(* Lines and chains *)

\* line.get('parent') is None
NoParent == 0

Line(m, s, c, p, o) ==
    [method |-> m, service |-> s, command |-> c, parent |-> p, output |-> o]

Service(n) == [tag |-> "Service", name |-> n]
Command(n) == [tag |-> "Command", name |-> n]
Event(n) == [tag |-> "Event", name |-> n]

last(ch) == ch[Len(ch)]

----------------------------------------------------------------------------
(* The internal registry *)

is_internal(service, command) ==
    /\ service \in DOMAIN internal_services
    /\ command \in DOMAIN internal_services[service].commands

InternalCommand(arguments, output_type, handler) ==
    [arguments |-> arguments, output_type |-> output_type, handler |-> handler]

\* The registry after register_internal(name, command, arguments, output_type, handler).
\* Mutant: the service is made anew at every call.
RegisteredMut(reg, name, command, arguments, output_type, handler) ==
    (name :> [commands |-> (command :> InternalCommand(arguments, output_type, handler))])
        @@ reg
Registered(reg, name, command, arguments, output_type, handler) ==
    LET old == IF name \in DOMAIN reg THEN reg[name].commands ELSE <<>>
        new == (command :> InternalCommand(arguments, output_type, handler)) @@ old
    IN  (name :> [commands |-> new]) @@ reg

\* register_internal(name, command, arguments, output_type, handler)
RegisterInternal(name, command, arguments, output_type, handler) ==
    /\ Len(registrations) < MaxRegistrations
    /\ internal_services' =
            Registered(internal_services, name, command, arguments, output_type, handler)
    /\ registrations' = Append(registrations,
            [name |-> name, command |-> command,
             record |-> InternalCommand(arguments, output_type, handler)])

----------------------------------------------------------------------------
(* resolve_chain *)

\* Is this a concrete service?
IsConcrete(service) == service \in DOMAIN services

\* The owner test of get_owner: one output name, equal to the service.
\* Mutant: the length of the output is not checked to be one.
OwnsMut(line, service) ==
    /\ Len(line.output) >= 1
    /\ service = line.output[1]
Owns(line, service) ==
    /\ Len(line.output) = 1
    /\ service = line.output[1]

\* The element resolve_chain prepends for a visited line.
\* Mutant: the method of the line is ignored.
ElemMut(line) == Command(line.command)
Elem(line) ==
    IF line.method = "when" THEN Event(line.command) ELSE Command(line.command)

\* chain.appendleft(elem)
\* Mutant: chain.append(elem)
appendleftMut(ch, elem) == Append(ch, elem)
appendleft(ch, elem) == <<elem>> \o ch

Failed == [ok |-> FALSE, chain |-> <<>>]

\* get_owner(line): the loop from line id l; NoParent when its assertion fails.
RECURSIVE get_owner(_, _)
get_owner(l, service) ==
    LET parent == tree[l].parent
    IN  IF parent = NoParent THEN NoParent
        ELSE IF Owns(tree[parent], service) THEN parent
        ELSE get_owner(parent, service)

RECURSIVE rc_loop(_, _)
rc_loop(l, ch) ==
    LET line == tree[l]
        c1 == appendleft(ch, Elem(line))
        resolved == IsConcrete(line.service)
                        \/ is_internal(line.service, line.command)
    IN  IF resolved THEN [ok |-> TRUE, chain |-> appendleft(c1, Service(line.service))]
        ELSE IF line.parent = NoParent THEN Failed
        ELSE LET owner == get_owner(l, line.service)
             IN  IF owner = NoParent THEN Failed ELSE rc_loop(owner, c1)

\* resolve_chain(story, line): [ok, chain]; ok is FALSE when an assertion fails.
resolve_chain(l) == rc_loop(l, <<>>)

----------------------------------------------------------------------------
(* resolve_chain, one loop iteration per step *)

\* One iteration of resolve_chain's while loop, up to the call of get_owner.
RcVisit ==
    /\ rc_pc = "loop"
    /\ rc_visited' = <<rc_line>> \o rc_visited
    /\ LET line == tree[rc_line]
           c1 == appendleft(rc_chain, Elem(line))
           resolved == IsConcrete(line.service)
                           \/ is_internal(line.service, line.command)
       IN  IF resolved
           THEN /\ rc_chain' = appendleft(c1, Service(line.service))
                /\ rc_pc' = "returned"
                /\ UNCHANGED <<rc_line, rc_cursor>>
           ELSE /\ rc_chain' = c1
                /\ rc_pc' = IF line.parent = NoParent THEN "error" ELSE "owner"
                /\ rc_cursor' = rc_line
                /\ UNCHANGED rc_line
    /\ UNCHANGED <<world, proc_vars, when_vars, run_vars>>

\* Mutant: get_owner's loop without "line = story.line(parent)": it never moves up.
RcOwnerStepMut ==
    /\ rc_pc = "owner"
    /\ LET service == tree[rc_line].service
           parent == tree[rc_cursor].parent
       IN  IF parent = NoParent
           THEN /\ rc_pc' = "error"
                /\ UNCHANGED <<rc_line, rc_cursor>>
           ELSE /\ UNCHANGED rc_cursor
                /\ IF Owns(tree[parent], service)
                   THEN rc_line' = parent /\ rc_pc' = "loop"
                   ELSE UNCHANGED <<rc_line, rc_pc>>
    /\ UNCHANGED <<rc_chain, rc_visited, world, proc_vars, when_vars, run_vars>>

\* One iteration of get_owner's while loop.
RcOwnerStep ==
    /\ rc_pc = "owner"
    /\ LET service == tree[rc_line].service
           parent == tree[rc_cursor].parent
       IN  IF parent = NoParent
           THEN /\ rc_pc' = "error"
                /\ UNCHANGED <<rc_line, rc_cursor>>
           ELSE /\ rc_cursor' = parent
                /\ IF Owns(tree[parent], service)
                   THEN rc_line' = parent /\ rc_pc' = "loop"
                   ELSE UNCHANGED <<rc_line, rc_pc>>
    /\ UNCHANGED <<rc_chain, rc_visited, world, proc_vars, when_vars, run_vars>>

----------------------------------------------------------------------------
(* Command configuration *)

\* story.argument_by_name(line, name): the value the story gives the argument.
argument_by_name(l, name) == [line |-> l, arg |-> name]

NoHttp ==
    [present |-> FALSE, method |-> "absent", use_event_conn |-> FALSE,
     port |-> 0, has_path |-> FALSE, path |-> <<>>]

Http(method, use_event_conn, port, path) ==
    [present |-> TRUE, method |-> method, use_event_conn |-> use_event_conn,
     port |-> port, has_path |-> TRUE, path |-> path]

\* 'http': {} as in test_services_execute_external_http
EmptyHttp == [NoHttp EXCEPT !.present = TRUE]

NoArgs == [present |-> FALSE, in |-> <<>>]
Args(in) == [present |-> TRUE, in |-> in]

\* A command's configuration: format (present or not), http, arguments, events.
Node(format, http, arguments, events) ==
    [kind |-> "node", format |-> format, http |-> http,
     arguments |-> arguments, events |-> events]

\* An 'actions' mapping: command name -> node.
Actions(map) == [kind |-> "actions", map |-> map]

\* {}
EmptyConf == [kind |-> "empty"]
\* A node that is None (a key with no value).
Null == [kind |-> "null"]
KeyError == [kind |-> "KeyError"]

\* One step of get_command_conf's loop.
Descend(next, entry) ==
    IF entry.tag = "Service"
    THEN IF next.kind = "services" /\ entry.name \in DOMAIN next.map
             /\ next.map[entry.name].configured
         THEN Actions(next.map[entry.name].actions)
         ELSE KeyError
    ELSE IF entry.tag = "Command"
    THEN IF next.kind = "actions" /\ entry.name \in DOMAIN next.map
         THEN next.map[entry.name]
         ELSE KeyError
    ELSE IF next.kind = "node" /\ entry.name \in DOMAIN next.events
         THEN Actions(next.events[entry.name])
         ELSE KeyError

RECURSIVE DescendAll(_, _)
DescendAll(next, ch) ==
    IF ch = <<>> \/ next.kind = "KeyError" THEN next
    ELSE DescendAll(Descend(next, Head(ch)), Tail(ch))

\* next or {}
\* Mutant: next
OrEmptyMut(next) == next
OrEmpty(next) ==
    IF next.kind = "null" \/ (next.kind = "actions" /\ DOMAIN next.map = {})
    THEN EmptyConf ELSE next

get_command_conf(ch) ==
    OrEmpty(DescendAll([kind |-> "services", map |-> services], ch))

\* command_conf.get('format') is not None
HasFormat(conf) == conf.kind = "node" /\ conf.format
\* command_conf.get('http') is not None
HasHttp(conf) == conf.kind = "node" /\ conf.http.present
\* command_conf.get('arguments') is not None
HasArguments(conf) == conf.kind = "node" /\ conf.arguments.present

----------------------------------------------------------------------------
(* Errors, values *)

AsyncyError(message, l) == [type |-> "AsyncyError", message |-> message, line |-> l]
\* An error that is not an AsyncyError and carries neither story nor line.
PyError(type) == [type |-> type, message |-> "", line |-> NoParent]

None == [kind |-> "None"]

Raise(e) ==
    /\ pc' = "raised"
    /\ err' = <<e>>

Return(v) ==
    /\ pc' = "returned"
    /\ result' = <<v>>

Call(name) == calls' = Append(calls, name)

\* get_command_conf(story, chain), called MaxRepeats times at most.
GetCommandConf ==
    /\ pc = "get_command_conf"
    /\ Len(result) < MaxRepeats
    /\ LET conf == get_command_conf(chain)
       IN  IF conf.kind = "KeyError"
           THEN /\ Raise(PyError("KeyError"))
                /\ UNCHANGED <<result, command_conf>>
           ELSE /\ result' = Append(result, conf)
                /\ command_conf' = conf
                /\ UNCHANGED <<pc, err>>
    /\ UNCHANGED <<world, proc_vars, when_vars, rc_vars, chain, container, inner,
                   calls, handler_calls, http_calls, req_writes, callbacks, finished>>

----------------------------------------------------------------------------
(* execute, execute_internal *)

\* execute's choice between execute_internal and execute_external.
\* Mutant: the command is not taken from the last element.
IsInternalChainMut(ch) == is_internal(ch[1].name, ch[1].name)
IsInternalChain(ch) == is_internal(ch[1].name, last(ch).name)

\* Mutant: execute asks first whether the service is a concrete one.
ExecuteMut ==
    /\ pc = "execute"
    /\ LET rc == resolve_chain(ln)
       IN  IF ~rc.ok
           THEN /\ Raise(PyError("AssertionError"))
                /\ UNCHANGED <<chain, calls>>
           ELSE /\ chain' = rc.chain
                /\ IF ~IsConcrete(rc.chain[1].name) /\ IsInternalChain(rc.chain)
                   THEN pc' = "execute_internal" /\ Call("execute_internal")
                   ELSE pc' = "execute_external" /\ Call("execute_external")
                /\ UNCHANGED err
    /\ UNCHANGED <<world, proc_vars, when_vars, rc_vars, command_conf, container, inner, handler_calls,
                   http_calls, req_writes, callbacks, finished, result>>

\* execute, up to its call of execute_internal or execute_external.
Execute ==
    /\ pc = "execute"
    /\ LET rc == resolve_chain(ln)
       IN  IF ~rc.ok
           THEN /\ Raise(PyError("AssertionError"))
                /\ UNCHANGED <<chain, calls>>
           ELSE /\ chain' = rc.chain
                /\ IF IsInternalChain(rc.chain)
                   THEN pc' = "execute_internal" /\ Call("execute_internal")
                   ELSE pc' = "execute_external" /\ Call("execute_external")
                /\ UNCHANGED err
    /\ UNCHANGED <<world, proc_vars, when_vars, rc_vars, command_conf, container, inner, handler_calls,
                   http_calls, req_writes, callbacks, finished, result>>

\* The resolved_args execute_internal builds for a registered command.
\* Mutant: the declared arguments are not resolved.
ResolvedArgsMut(l, command) == <<>>
ResolvedArgs(l, command) ==
    [arg \in command.arguments |-> argument_by_name(l, arg)]

\* execute_internal, up to its call of the handler.
ExecuteInternal ==
    /\ pc = "execute_internal"
    /\ LET line == tree[ln]
       IN  IF line.service \notin DOMAIN internal_services
           THEN /\ Raise(PyError("KeyError"))
                /\ UNCHANGED <<handler_calls, calls>>
           ELSE IF line.command \notin DOMAIN internal_services[line.service].commands
           THEN /\ Raise(PyError("AttributeError"))
                /\ UNCHANGED <<handler_calls, calls>>
           ELSE LET command == internal_services[line.service].commands[line.command]
                IN  /\ handler_calls' = Append(handler_calls,
                            [handler |-> command.handler, line |-> ln,
                             resolved_args |-> ResolvedArgs(ln, command)])
                    /\ Call("handler")
                    /\ pc' = "handler"
                    /\ UNCHANGED err
    /\ UNCHANGED <<world, proc_vars, when_vars, rc_vars, chain, command_conf, container, inner,
                   http_calls, req_writes, callbacks, finished, result>>

HandlerOutputs == {[kind |-> "output", of |-> "handler"], None}

\* Mutant: after the handler returns, execute falls through to
\* execute_external.
HandlerReturnMut ==
    /\ pc = "handler"
    /\ \E v \in HandlerOutputs :
        /\ inner' = <<v>>
        /\ pc' = "execute_external"
    /\ UNCHANGED <<world, proc_vars, when_vars, rc_vars, chain, command_conf, container, calls,
                   handler_calls, http_calls, req_writes, callbacks, finished, result, err>>

\* The handler returns; execute_internal and execute return its value.
HandlerReturn ==
    /\ pc = "handler"
    /\ \E v \in HandlerOutputs :
        /\ inner' = <<v>>
        /\ Return(v)
    /\ UNCHANGED <<world, proc_vars, when_vars, rc_vars, chain, command_conf, container, calls,
                   handler_calls, http_calls, req_writes, callbacks, finished, err>>

----------------------------------------------------------------------------
(* execute_external, start_container *)

\* Mutant: execute_external selects the transport without start_container.
ExecuteExternalMut ==
    /\ pc = "execute_external"
    /\ LET rc == resolve_chain(ln)
           conf == get_command_conf(rc.chain)
       IN  IF ~rc.ok
           THEN /\ Raise(PyError("AssertionError"))
                /\ UNCHANGED <<chain, command_conf>>
           ELSE IF conf.kind = "KeyError"
           THEN /\ Raise(PyError("KeyError"))
                /\ UNCHANGED <<chain, command_conf>>
           ELSE /\ chain' = rc.chain
                /\ command_conf' = conf
                /\ pc' = "select_transport"
                /\ UNCHANGED err
    /\ UNCHANGED <<world, proc_vars, when_vars, rc_vars, container, inner, calls, handler_calls, http_calls,
                   req_writes, callbacks, finished, result>>

\* execute_external, up to its call of start_container.
ExecuteExternal ==
    /\ pc = "execute_external"
    /\ LET rc == resolve_chain(ln)
           conf == get_command_conf(rc.chain)
       IN  IF ~rc.ok
           THEN /\ Raise(PyError("AssertionError"))
                /\ UNCHANGED <<chain, command_conf, calls>>
           ELSE IF conf.kind = "KeyError"
           THEN /\ Raise(PyError("KeyError"))
                /\ UNCHANGED <<chain, command_conf, calls>>
           ELSE /\ chain' = rc.chain
                /\ command_conf' = conf
                /\ Call("start_container")
                /\ pc' = "start_container"
                /\ UNCHANGED err
    /\ UNCHANGED <<world, proc_vars, when_vars, rc_vars, container, inner, handler_calls, http_calls,
                   req_writes, callbacks, finished, result>>

\* The handle start_container makes up for the gateway.
\* Mutant: the name is taken from the line.
GatewayServiceMut(l) ==
    [name |-> tree[l].service, command |-> tree[l].command,
     container_name |-> "gateway", hostname |-> "ASYNCY_HTTP_GW_HOST"]
GatewayService(l) ==
    [name |-> "http", command |-> tree[l].command, container_name |-> "gateway",
     hostname |-> "ASYNCY_HTTP_GW_HOST"]

\* What Containers.start may return.
StartedServices(l) ==
    {[name |-> tree[l].service, command |-> tree[l].command,
      container_name |-> "asyncy--foo-1", hostname |-> "foo.com"]}

\* Mutant: the gateway is recognised by the service of the line, not by
\* the first element of the chain.
StartContainerMut ==
    /\ pc = "start_container"
    /\ LET rc == resolve_chain(ln)
       IN  IF ~rc.ok
           THEN /\ Raise(PyError("AssertionError"))
                /\ UNCHANGED <<container, calls>>
           ELSE IF tree[ln].service = "http"
           THEN /\ container' = <<GatewayService(ln)>>
                /\ pc' = "select_transport"
                /\ UNCHANGED <<calls, err>>
           ELSE /\ Call("Containers.start")
                /\ pc' = "containers_start"
                /\ UNCHANGED <<container, err>>
    /\ UNCHANGED <<world, proc_vars, when_vars, rc_vars, chain, command_conf, inner, handler_calls,
                   http_calls, req_writes, callbacks, finished, result>>

\* start_container, up to its return or its call of Containers.start.
StartContainer ==
    /\ pc = "start_container"
    /\ LET rc == resolve_chain(ln)
       IN  IF ~rc.ok
           THEN /\ Raise(PyError("AssertionError"))
                /\ UNCHANGED <<container, calls>>
           ELSE IF rc.chain[1].name = "http"
           THEN /\ container' = <<GatewayService(ln)>>
                /\ pc' = "select_transport"
                /\ UNCHANGED <<calls, err>>
           ELSE /\ Call("Containers.start")
                /\ pc' = "containers_start"
                /\ UNCHANGED <<container, err>>
    /\ UNCHANGED <<world, proc_vars, when_vars, rc_vars, chain, command_conf, inner, handler_calls,
                   http_calls, req_writes, callbacks, finished, result>>

\* Containers.start returns, and start_container with it.
ContainersStartReturn ==
    /\ pc = "containers_start"
    /\ \E s \in StartedServices(ln) : container' = <<s>>
    /\ pc' = "select_transport"
    /\ UNCHANGED <<world, proc_vars, when_vars, rc_vars, chain, command_conf, inner, calls, handler_calls,
                   http_calls, req_writes, callbacks, finished, result, err>>

\* The transport execute_external selects for a command_conf.
\* Mutant: http is tested before format.
TransportMut(conf) ==
    IF HasHttp(conf)
    THEN IF conf.http.use_event_conn THEN "execute_inline" ELSE "execute_http"
    ELSE IF HasFormat(conf) THEN "Containers.exec"
    ELSE "fatal"
Transport(conf) ==
    IF HasFormat(conf) THEN "Containers.exec"
    ELSE IF HasHttp(conf)
    THEN IF conf.http.use_event_conn THEN "execute_inline" ELSE "execute_http"
    ELSE "fatal"

\* execute_external after start_container: the selection of the transport.
SelectTransport ==
    /\ pc = "select_transport"
    /\ LET t == Transport(command_conf)
       IN  IF t = "fatal"
           THEN /\ Raise(AsyncyError("has neither http nor format sections!", ln))
                /\ Call("fatal")
           ELSE /\ Call(t)
                /\ pc' = t
                /\ UNCHANGED err
    /\ UNCHANGED <<world, proc_vars, when_vars, rc_vars, chain, command_conf, container, inner,
                   handler_calls, http_calls, req_writes, callbacks, finished, result>>

ExecOutputs == {[kind |-> "output", of |-> "exec"]}

\* Containers.exec returns; execute_external returns its value.
ContainersExecReturn ==
    /\ pc = "Containers.exec"
    /\ \E v \in ExecOutputs :
        /\ inner' = <<v>>
        /\ Return(v)
    /\ UNCHANGED <<world, proc_vars, when_vars, rc_vars, chain, command_conf, container, calls,
                   handler_calls, http_calls, req_writes, callbacks, finished, err>>

----------------------------------------------------------------------------
(* execute_inline *)

\* ujson.dumps(body) + '\n'
InlineMessage(command, data) ==
    [json |-> [command |-> command, data |-> data], newline |-> TRUE]

\* chain[0].name == 'http' and command.name == 'finish'
\* Mutant: the service of the chain is not looked at.
SchedulesFinishMut(ch) == last(ch).name = "finish"
SchedulesFinish(ch) == ch[1].name = "http" /\ last(ch).name = "finish"

\* Mutant: req.finish() is called by execute_inline itself, before the write.
ExecuteInlineMut ==
    /\ pc = "execute_inline"
    /\ LET command == last(chain)
           args == IF HasArguments(command_conf) THEN command_conf.arguments.in ELSE <<>>
           data == [arg \in DOMAIN args |-> argument_by_name(ln, arg)]
       IN  /\ command.tag = "Command"
           /\ req_writes' = Append(req_writes, InlineMessage(command.name, data))
           /\ IF SchedulesFinish(chain)
              THEN /\ finished' = finished + 1
                   /\ calls' = calls \o <<"req.finish", "req.write">>
              ELSE /\ calls' = Append(calls, "req.write")
                   /\ UNCHANGED finished
           /\ Return(None)
    /\ UNCHANGED <<world, proc_vars, when_vars, rc_vars, chain, command_conf, container, inner,
                   handler_calls, http_calls, callbacks, err>>

\* execute_inline: it has no suspension point.
ExecuteInline ==
    /\ pc = "execute_inline"
    /\ LET command == last(chain)
           args == IF HasArguments(command_conf) THEN command_conf.arguments.in ELSE <<>>
           data == [arg \in DOMAIN args |-> argument_by_name(ln, arg)]
       IN  IF command.tag # "Command"
           THEN /\ Raise(PyError("AssertionError"))
                /\ UNCHANGED <<req_writes, callbacks, calls, result>>
           ELSE /\ req_writes' = Append(req_writes, InlineMessage(command.name, data))
                /\ IF SchedulesFinish(chain)
                   THEN /\ callbacks' = Append(callbacks, "req.finish")
                        /\ calls' = calls \o <<"req.write", "io_loop.add_callback">>
                   ELSE /\ calls' = Append(calls, "req.write")
                        /\ UNCHANGED callbacks
                /\ Return(None)
                /\ UNCHANGED err
    /\ UNCHANGED <<world, proc_vars, when_vars, rc_vars, chain, command_conf, container, inner,
                   handler_calls, http_calls, finished>>

\* A turn of the server I/O loop: it runs the first callback added to it.
IoLoopTurn ==
    /\ callbacks # <<>>
    /\ finished' = finished + 1
    /\ callbacks' = Tail(callbacks)
    /\ Call(callbacks[1])
    /\ UNCHANGED <<world, proc_vars, when_vars, rc_vars, pc, chain, command_conf, container, inner,
                   handler_calls, http_calls, req_writes, result, err>>

----------------------------------------------------------------------------
(* execute_http *)

Upper(m) ==
    CASE m \in {"post", "Post", "POST"} -> "POST"
      [] m \in {"get", "Get", "GET"} -> "GET"
      [] OTHER -> m

Lower(m) ==
    CASE m \in {"post", "Post", "POST"} -> "post"
      [] m \in {"get", "Get", "GET"} -> "get"
      [] OTHER -> m

\* Mutant: an unknown location is let through.
LocationsMut == {"requestBody", "query", "path", "invalid_loc"}
Locations == {"requestBody", "query", "path"}

\* args[arg].get('in', 'requestBody')
Location(args, arg) == IF args[arg] = "absent" THEN "requestBody" ELSE args[arg]

\* The arguments execute_http's loop puts in the bag of location loc.
\* Mutant: every argument also goes to the body.
BagMut(args, l, loc) ==
    [arg \in {a \in DOMAIN args : loc = "requestBody" \/ Location(args, a) = loc}
        |-> argument_by_name(l, arg)]
Bag(args, l, loc) ==
    [arg \in {a \in DOMAIN args : Location(args, a) = loc} |-> argument_by_name(l, arg)]

Lit(text) == [kind |-> "lit", text |-> text]
Placeholder(name) == [kind |-> "placeholder", text |-> name]

\* The replacement fields of a path template.
Fields(path) ==
    {path[i].text : i \in {j \in DOMAIN path : path[j].kind = "placeholder"}}

\* command_conf['http']['path'].format(**path_params), when every field is given.
Format(path, path_params) ==
    [i \in DOMAIN path |->
        IF path[i].kind = "placeholder"
        THEN [kind |-> "value", value |-> path_params[path[i].text]]
        ELSE path[i]]

\* HttpUtils.add_params_to_url(url, params)
add_params_to_url(url, params) == [path |-> url, query |-> params]

\* json.dumps(body)
json_dumps(body) == [json |-> body]

JsonContentType == "application/json; charset=utf-8"

DefaultPort == 5000
Attempts == 3

\* The kwargs execute_http passes to the HTTP client.
\* Mutant: an empty body bag is not encoded.
KwargsMut(method, body) ==
    IF Lower(method) = "post" /\ DOMAIN body # {}
    THEN [method |-> Upper(method), body |-> <<json_dumps(body)>>,
          headers |-> [h \in {"Content-Type"} |-> JsonContentType]]
    ELSE [method |-> Upper(method), body |-> <<>>, headers |-> <<>>]
Kwargs(method, body) ==
    IF Lower(method) = "post"
    THEN [method |-> Upper(method), body |-> <<json_dumps(body)>>,
          headers |-> [h \in {"Content-Type"} |-> JsonContentType]]
    ELSE [method |-> Upper(method), body |-> <<>>, headers |-> <<>>]

\* execute_http, up to its call of Containers.get_hostname.
ExecuteHttp ==
    /\ pc = "execute_http"
    /\ IF chain[1].tag # "Service"
       THEN /\ Raise(PyError("AssertionError"))
            /\ UNCHANGED calls
       ELSE /\ Call("Containers.get_hostname")
            /\ pc' = "get_hostname"
            /\ UNCHANGED err
    /\ UNCHANGED <<world, proc_vars, when_vars, rc_vars, chain, command_conf, container, inner,
                   handler_calls, http_calls, req_writes, callbacks, finished, result>>

Hostnames == {"container_host"}

\* Containers.get_hostname returns; execute_http, up to its call of fetch_with_retry.
ExecuteHttpRequest ==
    /\ pc = "get_hostname"
    /\ \E host \in Hostnames :
        LET http == command_conf.http
            args == command_conf.arguments.in
            body == Bag(args, ln, "requestBody")
            query_params == Bag(args, ln, "query")
            path_params == Bag(args, ln, "path")
            method == IF http.method = "absent" THEN "post" ELSE http.method
            port == IF http.port = 0 THEN DefaultPort ELSE http.port
        IN  IF ~HasArguments(command_conf)
            THEN /\ Raise(PyError("TypeError"))
                 /\ UNCHANGED <<http_calls, calls>>
            ELSE IF \E a \in DOMAIN args : Location(args, a) \notin Locations
            THEN /\ Raise(AsyncyError("Invalid location for argument", NoParent))
                 /\ UNCHANGED <<http_calls, calls>>
            ELSE IF Lower(method) # "post" /\ DOMAIN body # {}
            THEN /\ Raise(AsyncyError("Parameters found in the request body", ln))
                 /\ UNCHANGED <<http_calls, calls>>
            ELSE IF ~http.has_path \/ ~(Fields(http.path) \subseteq DOMAIN path_params)
            THEN /\ Raise(PyError("KeyError"))
                 /\ UNCHANGED <<http_calls, calls>>
            ELSE /\ http_calls' = Append(http_calls,
                        [attempts |-> Attempts,
                         url |-> [hostname |-> host, port |-> port]
                                    @@ add_params_to_url(Format(http.path, path_params),
                                                         query_params),
                         kwargs |-> Kwargs(method, body),
                         bags |-> [body |-> body, query |-> query_params,
                                   path |-> path_params]])
                 /\ Call("fetch_with_retry")
                 /\ pc' = "fetch"
                 /\ UNCHANGED err
    /\ UNCHANGED <<world, proc_vars, when_vars, rc_vars, chain, command_conf, container, inner,
                   handler_calls, req_writes, callbacks, finished, result>>

\* response.code: the codes of the tests, and those around the 2xx class.
ResponseCodes == {199, 200, 204, 299, 300, 400, 500}
\* response.headers.get('Content-Type')
ContentTypes == {"absent", "application/json", "application/json; charset=utf-8",
                 "text/plain"}

\* 'application/json' in content_type
\* Mutant: content_type == 'application/json'
IsJsonMut(content_type) == content_type = "application/json"
IsJson(content_type) ==
    content_type \in {"application/json", "application/json; charset=utf-8"}

\* Mutant: after a response outside 2xx the request is built and sent again.
FetchReturnMut ==
    /\ pc = "fetch"
    /\ \E code \in ResponseCodes, content_type \in ContentTypes :
        LET response == [code |-> code, content_type |-> content_type,
                         body |-> [kind |-> "body"]]
        IN  /\ inner' = <<response>>
            /\ IF response.code \div 100 = 2
               THEN IF IsJson(response.content_type)
                    THEN Return([kind |-> "parsed", of |-> response.body])
                    ELSE Return(response.body)
               ELSE pc' = "get_hostname" /\ UNCHANGED result
    /\ UNCHANGED <<world, proc_vars, when_vars, rc_vars, chain, command_conf,
                   container, calls, handler_calls, http_calls, req_writes,
                   callbacks, finished, err>>

\* fetch_with_retry returns a response; execute_http classifies it.
FetchReturn ==
    /\ pc = "fetch"
    /\ \E code \in ResponseCodes, content_type \in ContentTypes :
        LET response == [code |-> code, content_type |-> content_type,
                         body |-> [kind |-> "body"]]
        IN  /\ inner' = <<response>>
            /\ IF response.code \div 100 = 2
               THEN /\ IF IsJson(response.content_type)
                       THEN Return([kind |-> "parsed", of |-> response.body])
                       ELSE Return(response.body)
                    /\ UNCHANGED err
               ELSE /\ Raise(AsyncyError("Failed to invoke service!", ln))
                    /\ UNCHANGED result
    /\ UNCHANGED <<world, proc_vars, when_vars, rc_vars, chain, command_conf, container, calls,
                   handler_calls, http_calls, req_writes, callbacks, finished>>

----------------------------------------------------------------------------
(* when *)

StreamingService(name, command, container_name, hostname) ==
    [name |-> name, command |-> command, container_name |-> container_name,
     hostname |-> hostname]

\* The configuration of an event: http.port (0: not given),
\* http.subscribe.method ("absent": not given), http.subscribe.path, arguments.
EventConf(port, method, path, arguments) ==
    [port |-> port, subscribe |-> [method |-> method, path |-> path],
     arguments |-> arguments]

DefaultEventPort == 80

\* Dict.find(conf, f'actions.{s.command}.events.{command}')
find_event(conf, s, command) == conf.actions[s.command].events[command]

\* Dict.find(conf_event, 'http.port', 80)
find_port(conf_event) ==
    IF conf_event.port = 0 THEN DefaultEventPort ELSE conf_event.port

\* Dict.find(conf_event, 'http.subscribe.method', 'post')
find_subscribe_method(conf_event) ==
    IF conf_event.subscribe.method = "absent" THEN "post"
    ELSE conf_event.subscribe.method

\* Dict.find(conf_event, 'arguments', {})
find_arguments(conf_event) ==
    IF conf_event.arguments.present THEN conf_event.arguments.in ELSE <<>>

\* urllib.parse.urlencode(query)
urlencode(query) == [urlencoded |-> query]

\* story.app.app_dns
AppDns == [config |-> "app_dns"]

\* when: data, the resolved arguments of the event and, for http, the host.
\* Mutant: the host is sent for every service.
WhenDataMut(s, l, event_args) ==
    [key \in DOMAIN event_args \cup {"host"} |->
        IF key = "host" THEN AppDns ELSE argument_by_name(l, key)]
WhenData(s, l, event_args) ==
    [key \in DOMAIN event_args \cup (IF s.name = "http" THEN {"host"} ELSE {}) |->
        IF s.name = "http" /\ key = "host" THEN AppDns
        ELSE argument_by_name(l, key)]

\* when: body
WhenBody(s, l, conf_event, sub_id) ==
    LET sub_body ==
            [endpoint |-> [engine |-> "ENGINE_HOST:ENGINE_PORT",
                           path |-> "/story/event",
                           query |-> urlencode([story |-> "story.name",
                                                block |-> l,
                                                app |-> "app_id"])],
             data |-> WhenData(s, l, find_arguments(conf_event)),
             event |-> tree[l].command,
             id |-> sub_id]
    IN  [sub_id |-> sub_id,
         sub_url |-> [hostname |-> s.hostname, port |-> find_port(conf_event),
                      path |-> conf_event.subscribe.path],
         sub_method |-> Upper(find_subscribe_method(conf_event)),
         sub_body |-> sub_body,
         pod_name |-> s.container_name,
         app_id |-> "app_id"]

\* str(uuid.uuid4())
SubIds == {"guid_1", "guid_2"}

SynapseUrl ==
    [hostname |-> "ASYNCY_SYNAPSE_HOST", port |-> "ASYNCY_SYNAPSE_PORT",
     path |-> "/subscribe"]

\* when, up to its call of fetch_with_retry.
When ==
    /\ pc = "when"
    /\ \E sub_id \in SubIds :
        LET s == container[1]
            conf_event == find_event(services[s.name], s, tree[ln].command)
            body == WhenBody(s, ln, conf_event, sub_id)
            kwargs == [method |-> Upper(find_subscribe_method(conf_event)),
                       body |-> <<json_dumps(body)>>,
                       headers |-> [h \in {"Content-Type"} |-> JsonContentType]]
        IN  /\ sub' = <<[sub_id |-> sub_id, body |-> body]>>
            /\ http_calls' = Append(http_calls,
                    [attempts |-> Attempts, url |-> SynapseUrl, kwargs |-> kwargs])
    /\ Call("fetch_with_retry")
    /\ pc' = "when_fetch"
    /\ UNCHANGED <<world, proc_vars, rc_vars, chain, command_conf, container, inner,
                   handler_calls, req_writes, callbacks, finished, result, err,
                   subscriptions>>

\* Mutant: the subscription is recorded whatever the response is.
WhenFetchReturnMut ==
    /\ pc = "when_fetch"
    /\ \E code \in ResponseCodes :
        /\ inner' = <<[code |-> code]>>
        /\ subscriptions' = Append(subscriptions,
                [sub_id |-> sub[1].sub_id, service |-> container[1],
                 event |-> tree[ln].command, body |-> sub[1].body])
        /\ Call("add_subscription")
        /\ IF code \div 100 = 2
           THEN Return(None) /\ UNCHANGED err
           ELSE Raise(AsyncyError("Failed to subscribe", ln)) /\ UNCHANGED result
    /\ UNCHANGED <<world, proc_vars, rc_vars, chain, command_conf, container, handler_calls,
                   http_calls, req_writes, callbacks, finished, sub>>

\* fetch_with_retry returns the response of the broker; when subscribes or raises.
WhenFetchReturn ==
    /\ pc = "when_fetch"
    /\ \E code \in ResponseCodes :
        LET response == [code |-> code]
        IN  /\ inner' = <<response>>
            /\ IF response.code \div 100 = 2
               THEN /\ subscriptions' = Append(subscriptions,
                            [sub_id |-> sub[1].sub_id, service |-> container[1],
                             event |-> tree[ln].command, body |-> sub[1].body])
                    /\ Call("add_subscription")
                    /\ Return(None)
                    /\ UNCHANGED err
               ELSE /\ Raise(AsyncyError("Failed to subscribe", ln))
                    /\ UNCHANGED <<subscriptions, calls, result>>
    /\ UNCHANGED <<world, proc_vars, rc_vars, chain, command_conf, container, handler_calls,
                   http_calls, req_writes, callbacks, finished, sub>>

----------------------------------------------------------------------------
(* Stories *)

\* Service, command of a generated line: a concrete service, a handle, an
\* internal service.
GenTargets == {<<"alpine", "echo">>, <<"client", "foo">>, <<"log", "info">>}
GenOutputs == {<<>>, <<"client">>, <<"client", "helper">>}
GenMethods == {"execute", "when"}

\* Parent paths: line 1 is the root, line i + 1 is nested in line i.
GenPaths(n) ==
    {[i \in 1..n |-> Line(f[i][1], f[i][2][1], f[i][2][2], i - 1, f[i][3])] :
        f \in [1..n -> GenMethods \X GenTargets \X GenOutputs]}

\* The story of test_resolve_chain.
TestTree ==
    <<Line("execute", "alpine", "echo", NoParent, <<"client">>),
      Line("when", "client", "foo", 1, <<"echo_helper">>),
      Line("execute", "alpine", "echo", 2, <<>>),
      Line("execute", "echo_helper", "sonar", 3, <<>>),
      Line("execute", "echo_helper", "sonar", 2, <<>>)>>

AlpineOnly == [s \in {"alpine"} |-> [configured |-> FALSE, actions |-> <<>>]]

LogInfoRegistry ==
    Registered(<<>>, "log", "info", {}, "any", "log_info")

\* No operation is running.
RunIdle ==
    /\ pc = "idle"
    /\ chain = <<>>
    /\ command_conf = EmptyConf
    /\ container = <<>>
    /\ inner = <<>>
    /\ calls = <<>>
    /\ handler_calls = <<>>
    /\ http_calls = <<>>
    /\ req_writes = <<>>
    /\ callbacks = <<>>
    /\ finished = 0
    /\ result = <<>>
    /\ err = <<>>

\* Service.start is done, the engine serves stories.
ProcIdle ==
    /\ start_pc = "serving"
    /\ registrations = <<>>
    /\ whens = <<>>

\* No subscription was made.
WhenIdle ==
    /\ subscriptions = <<>>
    /\ sub = <<>>

RcIdle ==
    /\ rc_pc = "idle"
    /\ rc_chain = <<>>
    /\ rc_line = ln
    /\ rc_cursor = ln
    /\ rc_visited = <<>>

vars == <<world, rc_vars, run_vars, when_vars, proc_vars>>

----------------------------------------------------------------------------
(* SpecChain: resolve_chain(story, line) *)

InitChain ==
    /\ \/ \E n \in 1..MaxDepth : tree \in GenPaths(n) /\ ln = n
       \/ tree = TestTree /\ ln \in DOMAIN TestTree
    /\ services = AlpineOnly
    /\ internal_services = LogInfoRegistry
    /\ rc_pc = "loop"
    /\ rc_chain = <<>>
    /\ rc_line = ln
    /\ rc_cursor = ln
    /\ rc_visited = <<>>
    /\ RunIdle
    /\ WhenIdle
    /\ ProcIdle

NextChain == RcVisit \/ RcOwnerStep

SpecChain == InitChain /\ [][NextChain]_vars

\* resolve_chain is sequential code: its loops run on until they return or raise.
SpecChainFair == SpecChain /\ WF_vars(NextChain)

\* The stepwise loop and the operator compute the same result.
RcAgree ==
    /\ rc_pc = "returned" => resolve_chain(ln) = [ok |-> TRUE, chain |-> rc_chain]
    /\ rc_pc = "error" => ~resolve_chain(ln).ok

----------------------------------------------------------------------------
(* Spec: execute(story, line) *)

StoryAlpine ==
    <<Line("execute", "alpine", "echo", NoParent, <<"client">>),
      Line("when", "client", "foo", 1, <<"helper">>),
      Line("execute", "helper", "sonar", 2, <<>>)>>

StoryHttp ==
    <<Line("execute", "http", "server", NoParent, <<"srv">>),
      Line("when", "srv", "listen", 1, <<"req">>),
      Line("execute", "req", "write", 2, <<>>),
      Line("execute", "req", "finish", 2, <<>>)>>

StoryLog ==
    <<Line("execute", "log", "info", NoParent, <<"logger">>),
      Line("execute", "logger", "write", 1, <<>>),
      Line("execute", "log", "write", NoParent, <<>>),
      Line("execute", "ghost", "info", NoParent, <<>>)>>

DispatchStories == {StoryAlpine, StoryHttp, StoryLog}

DispatchRegistries ==
    { <<>>,
      Registered(<<>>, "log", "info", {}, "any", "log_info"),
      Registered(Registered(<<>>, "log", "info", {"arg1"}, "any", "log_info"),
                 "log", "write", {"arg1", "arg2"}, "any", "log_write"),
      Registered(<<>>, "http", "write", {"content"}, "any", "http_write"),
      Registered(<<>>, "http", "server", {}, "any", "http_server") }

InvokePath == <<Lit("/invoke")>>
InvokeFooPath == <<Lit("/invoke/"), Placeholder("foo")>>

DispatchHttps ==
    { NoHttp, EmptyHttp,
      Http("absent", TRUE, 0, InvokePath),
      Http("post", FALSE, 0, InvokePath),
      Http("get", FALSE, 2771, InvokeFooPath) }

DispatchArgs ==
    { NoArgs, Args(<<>>), Args([a \in {"foo"} |-> "path"]),
      Args([a \in {"foo"} |-> "absent"]) }

DispatchConfs ==
    {Node(f, h, a, <<>>) : f \in BOOLEAN, h \in DispatchHttps, a \in DispatchArgs}

\* app.services: each command of each service is configured with conf.
AppServices(conf) ==
    LET alpine == [c \in {"echo"} |->
                    [conf EXCEPT !.events =
                        [e \in {"foo"} |-> [c2 \in {"sonar"} |-> conf]]]]
        http == [c \in {"server"} |->
                    [conf EXCEPT !.events =
                        [e \in {"listen"} |-> [c2 \in {"write", "finish"} |-> conf]]]]
    IN  [s \in {"alpine", "http"} |->
            [configured |-> TRUE, actions |-> IF s = "alpine" THEN alpine ELSE http]]

Init ==
    /\ tree \in DispatchStories
    /\ ln \in DOMAIN tree
    /\ services \in {AppServices(conf) : conf \in DispatchConfs}
    /\ internal_services \in DispatchRegistries
    /\ RcIdle
    /\ WhenIdle
    /\ ProcIdle
    /\ pc = "execute"
    /\ chain = <<>>
    /\ command_conf = EmptyConf
    /\ container = <<>>
    /\ inner = <<>>
    /\ calls = <<>>
    /\ handler_calls = <<>>
    /\ http_calls = <<>>
    /\ req_writes = <<>>
    /\ callbacks = <<>>
    /\ finished = 0
    /\ result = <<>>
    /\ err = <<>>

Next ==
    \/ Execute
    \/ ExecuteInternal
    \/ HandlerReturn
    \/ ExecuteExternal
    \/ StartContainer
    \/ ContainersStartReturn
    \/ SelectTransport
    \/ ContainersExecReturn
    \/ ExecuteInline
    \/ IoLoopTurn
    \/ ExecuteHttp
    \/ ExecuteHttpRequest
    \/ FetchReturn

Spec == Init /\ [][Next]_vars

----------------------------------------------------------------------------
(* SpecHttp: execute_http(story, line, chain, command_conf) *)

ArgNames == {<<"foo", "bar", "baz", "qux">>[i] : i \in 1..MaxArgs}

Ins == {"absent", "requestBody", "query", "path", "invalid_loc"}

HttpArgs ==
    {NoArgs} \cup UNION {{Args(in) : in \in [S -> Ins]} : S \in SUBSET ArgNames}

HttpHttps ==
    {EmptyHttp} \cup
    {Http(m, FALSE, p, path) :
        m \in {"absent", "post", "get", "POST"}, p \in {0, 2771},
        path \in {InvokePath, InvokeFooPath}}

\* The line and the chain of test_services_execute_http.
HttpTestTree == <<Line("execute", "service", "cmd", NoParent, <<>>)>>
HttpTestChain == <<Service("service"), Command("cmd")>>

InitHttp ==
    /\ tree = HttpTestTree
    /\ ln = 1
    /\ services = <<>>
    /\ internal_services = <<>>
    /\ RcIdle
    /\ WhenIdle
    /\ ProcIdle
    /\ pc = "execute_http"
    /\ chain = HttpTestChain
    /\ command_conf \in {Node(FALSE, h, a, <<>>) : h \in HttpHttps, a \in HttpArgs}
    /\ container = <<>>
    /\ inner = <<>>
    /\ calls = <<>>
    /\ handler_calls = <<>>
    /\ http_calls = <<>>
    /\ req_writes = <<>>
    /\ callbacks = <<>>
    /\ finished = 0
    /\ result = <<>>
    /\ err = <<>>

NextHttp == ExecuteHttp \/ ExecuteHttpRequest \/ FetchReturn

SpecHttp == InitHttp /\ [][NextHttp]_vars

----------------------------------------------------------------------------
(* SpecInline: execute_inline(story, line, chain, command_conf) *)

\* Chains as in test_execute_inline, for the gateway and for other services.
InlineChains ==
    {<<Service(s)>> \o mid \o <<x>> :
        s \in {"http", "time-client", "alpine"},
        mid \in {<<>>, <<Event("server")>>},
        x \in {Command("write"), Command("finish"), Event("finish")}}

\* 'arguments' of the command: absent, or some names (execute_inline does not
\* look at what is declared for a name).
InlineArgs ==
    {NoArgs} \cup {Args([a \in S |-> "absent"]) : S \in SUBSET ArgNames}

InitInline ==
    /\ tree = HttpTestTree
    /\ ln = 1
    /\ services = <<>>
    /\ internal_services = <<>>
    /\ RcIdle
    /\ WhenIdle
    /\ ProcIdle
    /\ pc = "execute_inline"
    /\ chain \in InlineChains
    /\ command_conf \in {Node(FALSE, NoHttp, a, <<>>) : a \in InlineArgs}
    /\ container = <<>>
    /\ inner = <<>>
    /\ calls = <<>>
    /\ handler_calls = <<>>
    /\ http_calls = <<>>
    /\ req_writes = <<>>
    /\ callbacks = <<>>
    /\ finished = 0
    /\ result = <<>>
    /\ err = <<>>

NextInline == ExecuteInline \/ IoLoopTurn

SpecInline == InitInline /\ [][NextInline]_vars

----------------------------------------------------------------------------
(* SpecWhen: when(s, story, line) *)

\* The streaming services of test_when.
WhenServices ==
    {StreamingService(n, "time-server", "asyncy--foo-1", "foo.com") :
        n \in {"http", "time-client"}}

\* The line of test_when, for service s.
WhenTree(s) == <<Line("when", s.name, "updates", NoParent, <<>>)>>

\* 'arguments' of an event: absent, or some names, host among them.
WhenArgs ==
    {NoArgs} \cup {Args([a \in S |-> "absent"]) : S \in SUBSET (ArgNames \cup {"host"})}

WhenEventConfs ==
    {EventConf(port, method, "/sub", a) :
        port \in {0, 2000}, method \in {"absent", "post", "get"}, a \in WhenArgs}

\* story.app.services of test_when.
WhenAppServices(s, conf_event) ==
    [n \in {s.name} |->
        [configured |-> TRUE,
         actions |-> [c \in {s.command} |->
                        [events |-> [e \in {"updates"} |-> conf_event]]]]]

InitWhen ==
    /\ \E s \in WhenServices, conf_event \in WhenEventConfs :
        /\ container = <<s>>
        /\ tree = WhenTree(s)
        /\ services = WhenAppServices(s, conf_event)
    /\ ln = 1
    /\ internal_services = <<>>
    /\ RcIdle
    /\ WhenIdle
    /\ ProcIdle
    /\ pc = "when"
    /\ chain = <<>>
    /\ command_conf = EmptyConf
    /\ inner = <<>>
    /\ calls = <<>>
    /\ handler_calls = <<>>
    /\ http_calls = <<>>
    /\ req_writes = <<>>
    /\ callbacks = <<>>
    /\ finished = 0
    /\ result = <<>>
    /\ err = <<>>

NextWhen == When \/ WhenFetchReturn

SpecWhen == InitWhen /\ [][NextWhen]_vars

----------------------------------------------------------------------------
(* SpecWhens: two when(s, story, line) calls of one application *)

\* The calls that run side by side on the I/O loop.
WhenCalls == {1, 2}

\* The lines of the two calls: one subscribes to updates, one to ticks.
WhensTree(s1, s2) ==
    <<Line("when", s1.name, "updates", NoParent, <<>>),
      Line("when", s2.name, "ticks", NoParent, <<>>)>>

WhensEventConfs ==
    {EventConf(port, "post", "/sub", a) :
        port \in {0, 2000}, a \in {NoArgs, Args([x \in {"foo"} |-> "absent"])}}

\* story.app.services, shared by the two calls.
WhensAppServices(conf_event) ==
    [n \in {s.name : s \in WhenServices} |->
        [configured |-> TRUE,
         actions |-> [c \in {"time-server"} |->
                        [events |-> [e \in {"updates", "ticks"} |-> conf_event]]]]]

InitWhens ==
    /\ \E s1 \in WhenServices, s2 \in WhenServices, conf_event \in WhensEventConfs :
        /\ tree = WhensTree(s1, s2)
        /\ services = WhensAppServices(conf_event)
        /\ whens = [i \in WhenCalls |->
                      [pc |-> "when", s |-> IF i = 1 THEN s1 ELSE s2, line |-> i,
                       sub_id |-> "", body |-> <<>>, response |-> <<>>, err |-> <<>>]]
    /\ ln = 1
    /\ internal_services = <<>>
    /\ RcIdle
    /\ WhenIdle
    /\ RunIdle
    /\ start_pc = "serving"
    /\ registrations = <<>>

\* str(uuid.uuid4()): an id no other call was given.
\* Mutant: the id may be one that was generated before.
NewSubIdsMut == SubIds
NewSubIds == SubIds \ {whens[j].sub_id : j \in WhenCalls}

\* Call i runs when from its start to its suspension on fetch_with_retry.
WhensCall ==
    /\ \E i \in WhenCalls, sub_id \in NewSubIds :
        LET w == whens[i]
            conf_event == find_event(services[w.s.name], w.s, tree[w.line].command)
            body == WhenBody(w.s, w.line, conf_event, sub_id)
            kwargs == [method |-> Upper(find_subscribe_method(conf_event)),
                       body |-> <<json_dumps(body)>>,
                       headers |-> [h \in {"Content-Type"} |-> JsonContentType]]
        IN  /\ w.pc = "when"
            /\ whens' = [whens EXCEPT ![i] =
                            [w EXCEPT !.pc = "when_fetch", !.sub_id = sub_id,
                                      !.body = body]]
            /\ http_calls' = Append(http_calls,
                    [attempts |-> Attempts, url |-> SynapseUrl, kwargs |-> kwargs])
    /\ Call("fetch_with_retry")
    /\ UNCHANGED <<world, rc_vars, when_vars, start_pc, registrations, pc, chain,
                   command_conf, container, inner, handler_calls, req_writes,
                   callbacks, finished, result, err>>

\* What call w passes to app.add_subscription.
\* Mutant: the body is the one sent last to the broker, by whichever call.
AddedMut(w) ==
    [sub_id |-> w.sub_id, service |-> w.s, event |-> tree[w.line].command,
     body |-> http_calls[Len(http_calls)].kwargs.body[1].json]
Added(w) ==
    [sub_id |-> w.sub_id, service |-> w.s, event |-> tree[w.line].command,
     body |-> w.body]

\* The broker answers call i; the call resumes, and subscribes or raises.
WhensFetchReturn ==
    /\ \E i \in WhenCalls, code \in ResponseCodes :
        LET w == whens[i]
            response == [code |-> code]
        IN  /\ w.pc = "when_fetch"
            /\ IF response.code \div 100 = 2
               THEN /\ subscriptions' = Append(subscriptions, Added(w))
                    /\ Call("add_subscription")
                    /\ whens' = [whens EXCEPT ![i] =
                                    [w EXCEPT !.pc = "returned",
                                              !.response = <<response>>]]
               ELSE /\ whens' = [whens EXCEPT ![i] =
                                    [w EXCEPT !.pc = "raised",
                                              !.response = <<response>>,
                                              !.err = <<AsyncyError("Failed to subscribe",
                                                                    w.line)>>]]
                    /\ UNCHANGED <<subscriptions, calls>>
    /\ UNCHANGED <<world, rc_vars, sub, start_pc, registrations, pc, chain,
                   command_conf, container, inner, handler_calls, http_calls,
                   req_writes, callbacks, finished, result, err>>

NextWhens == WhensCall \/ WhensFetchReturn

SpecWhens == InitWhens /\ [][NextWhens]_vars

----------------------------------------------------------------------------
(* SpecInlineSeq: execute_inline, called for line after line of one story *)

\* The story dispatches another line of the same service to execute_inline,
\* with the same server_request and I/O loop in its context.
InlineAgain ==
    /\ pc = "returned"
    /\ Len(req_writes) < MaxInlineCalls
    /\ chain' \in {c \in InlineChains : c[1] = chain[1] /\ Len(c) = Len(chain)}
    /\ pc' = "execute_inline"
    /\ result' = <<>>
    /\ UNCHANGED <<world, proc_vars, when_vars, rc_vars, command_conf, container, inner,
                   calls, handler_calls, http_calls, req_writes, callbacks, finished, err>>

NextInlineSeq == ExecuteInline \/ IoLoopTurn \/ InlineAgain

SpecInlineSeq == InitInline /\ [][NextInlineSeq]_vars

----------------------------------------------------------------------------
(* SpecRegistry: register_internal, is_internal *)

RegNames == {"log", "http"}
RegCommands == {"info", "write"}

InitRegistry ==
    /\ tree = <<>>
    /\ ln = NoParent
    /\ services = <<>>
    /\ internal_services = <<>>
    /\ rc_pc = "idle"
    /\ rc_chain = <<>>
    /\ rc_line = ln
    /\ rc_cursor = ln
    /\ rc_visited = <<>>
    /\ RunIdle
    /\ WhenIdle
    /\ start_pc = "registering"
    /\ registrations = <<>>
    /\ whens = <<>>

\* Some caller registers a command.
Register ==
    /\ \E name \in RegNames, command \in RegCommands,
          arguments \in {{}, {"arg1"}}, handler \in {"handler_1", "handler_2"} :
            RegisterInternal(name, command, arguments, "any", handler)
    /\ UNCHANGED <<tree, services, ln, rc_vars, run_vars, when_vars, start_pc, whens>>

NextRegistry == Register

SpecRegistry == InitRegistry /\ [][NextRegistry]_vars

----------------------------------------------------------------------------
(* SpecService: Service.start, and then the dispatch of stories *)

\* The statements of Service.start that matter here, in their order.
\* Mutant: Http.init comes after server.listen.
StartOrderMut ==
    <<"File.init", "Log.init", "server.listen", "Http.init", "Apps.init_all", "serving">>
StartOrder ==
    <<"File.init", "Log.init", "Http.init", "server.listen", "Apps.init_all", "serving">>

\* The statement after statement p.
StartAfter(p) ==
    LET i == CHOOSE k \in DOMAIN StartOrder : StartOrder[k] = p
    IN  StartOrder[i + 1]

\* What File.init, Log.init and Http.init register.
InitCommands(module) ==
    CASE module = "File.init" -> {<<"file", "write">>, <<"file", "read">>}
      [] module = "Log.init" -> {<<"log", "info">>}
      [] module = "Http.init" -> {<<"http", "fetch">>, <<"http", "write">>}

InitService ==
    /\ tree = <<>>
    /\ ln = NoParent
    /\ services = <<>>
    /\ internal_services = <<>>
    /\ rc_pc = "idle"
    /\ rc_chain = <<>>
    /\ rc_line = ln
    /\ rc_cursor = ln
    /\ rc_visited = <<>>
    /\ RunIdle
    /\ WhenIdle
    /\ start_pc = StartOrder[1]
    /\ registrations = <<>>
    /\ whens = <<>>

\* Service.start: File.init(), Log.init(), Http.init()
StartRegister ==
    /\ start_pc \in {"File.init", "Log.init", "Http.init"}
    /\ \E c \in InitCommands(start_pc) :
            RegisterInternal(c[1], c[2], {"arg1"}, "any", c[2])
    /\ calls' = calls \o <<start_pc, "register_internal">>
    /\ start_pc' = StartAfter(start_pc)
    /\ UNCHANGED <<tree, services, ln, rc_vars, when_vars, whens, pc, chain,
                   command_conf, container, inner, handler_calls, http_calls,
                   req_writes, callbacks, finished, result, err>>

\* Service.start: server.listen(port), loop.create_task(Apps.init_all(...)),
\* IOLoop.current().start()
StartServe ==
    /\ start_pc \in {"server.listen", "Apps.init_all"}
    /\ Call(start_pc)
    /\ start_pc' = StartAfter(start_pc)
    /\ UNCHANGED <<world, when_vars, rc_vars, registrations, whens, pc, chain,
                   command_conf, container, inner, handler_calls, http_calls,
                   req_writes, callbacks, finished, result, err>>

\* A story of an application executes a line.
BeginExecute ==
    /\ start_pc = "serving"
    /\ pc = "idle"
    /\ tree' \in DispatchStories
    /\ ln' \in DOMAIN tree'
    /\ services' \in {AppServices(conf) : conf \in DispatchConfs}
    /\ pc' = "execute"
    /\ UNCHANGED <<internal_services, proc_vars, when_vars, rc_vars, chain,
                   command_conf, container, inner, calls, handler_calls, http_calls,
                   req_writes, callbacks, finished, result, err>>

\* A story of an application subscribes to an event of a started service.
BeginWhen ==
    /\ start_pc = "serving"
    /\ pc = "idle"
    /\ \E s \in WhenServices, conf_event \in WhenEventConfs :
        /\ container' = <<s>>
        /\ tree' = WhenTree(s)
        /\ services' = WhenAppServices(s, conf_event)
    /\ ln' = 1
    /\ pc' = "when"
    /\ UNCHANGED <<internal_services, proc_vars, when_vars, rc_vars, chain,
                   command_conf, inner, calls, handler_calls, http_calls,
                   req_writes, callbacks, finished, result, err>>

NextService ==
    \/ StartRegister
    \/ StartServe
    \/ BeginExecute
    \/ BeginWhen
    \/ Next
    \/ NextWhen

SpecService == InitService /\ [][NextService]_vars

----------------------------------------------------------------------------
(* SpecConf: get_command_conf(story, chain) *)

\* What the key 'cmd' of the actions of 'service' may hold: None, or a node
\* without events, with an event without actions, or with the event foo
\* whose action bar is None or a node.
ConfNodes ==
    {Null} \cup
    {Node(f, NoHttp, NoArgs, events) :
        f \in BOOLEAN,
        events \in {<<>>, [e \in {"foo"} |-> <<>>]} \cup
                   {[e \in {"foo"} |-> [c \in {"bar"} |-> n]] :
                        n \in {Null} \cup DispatchConfs}}

\* The chains of test_service_get_command_conf_simple and _events, a chain
\* that ends in an event, and chains with a missing key.
ConfChains ==
    { <<Service("service"), Command("cmd")>>,
      <<Service("service"), Command("cmd"), Event("foo"), Command("bar")>>,
      <<Service("service"), Command("cmd"), Event("foo")>>,
      <<Service("service"), Command("cmd"), Event("foo"), Command("baz")>>,
      <<Service("ghost"), Command("cmd")>> }

InitConf ==
    /\ tree = HttpTestTree
    /\ ln = 1
    /\ services \in {[s \in {"service"} |->
                        [configured |-> TRUE, actions |-> [c \in {"cmd"} |-> n]]] :
                     n \in ConfNodes}
    /\ internal_services = <<>>
    /\ RcIdle
    /\ WhenIdle
    /\ ProcIdle
    /\ pc = "get_command_conf"
    /\ chain \in ConfChains
    /\ command_conf = EmptyConf
    /\ container = <<>>
    /\ inner = <<>>
    /\ calls = <<>>
    /\ handler_calls = <<>>
    /\ http_calls = <<>>
    /\ req_writes = <<>>
    /\ callbacks = <<>>
    /\ finished = 0
    /\ result = <<>>
    /\ err = <<>>

NextConf == GetCommandConf

SpecConf == InitConf /\ [][NextConf]_vars

----------------------------------------------------------------------------
(* Properties of execute (Spec) *)

Transports == {"Containers.exec", "execute_http", "execute_inline", "fatal"}

IsTransport(c) == c \in Transports

\* C1: in every run of execute_external, start_container has been called and
\* has returned before a transport decision is acted on: no call of
\* Containers.exec, execute_http or execute_inline and no "neither http nor
\* format" error comes before it.
C1_StartContainerFirst ==
    \A i \in DOMAIN calls :
        IsTransport(calls[i]) =>
            /\ \E j \in 1..(i - 1) : calls[j] = "start_container"
            /\ container # <<>>

C1_Witness ==
    /\ \E i \in DOMAIN calls : calls[i] = "execute_http"
    /\ \E i \in DOMAIN calls : calls[i] = "Containers.start"

C2_Expected(conf) ==
    IF HasFormat(conf) THEN "Containers.exec"
    ELSE IF HasHttp(conf) /\ conf.http.use_event_conn THEN "execute_inline"
    ELSE IF HasHttp(conf) THEN "execute_http"
    ELSE "fatal"

\* C2: execute_external acts on exactly one outcome, by priority: format ->
\* Containers.exec (also when http is present), else http with use_event_conn
\* -> execute_inline, else http -> execute_http, else the fatal error; never
\* two transports in one call.
C2_OneTransportByPriority ==
    LET chosen == SelectSeq(calls, IsTransport)
    IN  /\ Len(chosen) <= 1
        /\ (container # <<>> /\ pc # "select_transport")
                => chosen = <<C2_Expected(command_conf)>>

C2_Witness ==
    /\ HasFormat(command_conf)
    /\ HasHttp(command_conf)
    /\ \E i \in DOMAIN calls : calls[i] = "Containers.exec"
    /\ pc = "returned"

IsExecuteBranch(c) == c \in {"execute_internal", "execute_external"}

\* C3: execute resolves the chain and then calls exactly one of
\* execute_internal and execute_external: execute_internal if and only if
\* is_internal(chain[0].name, last(chain).name); the value execute returns is
\* the value the chosen one returned.
C3_ExecuteCallsOne ==
    (pc # "execute" /\ resolve_chain(ln).ok) =>
        /\ chain = resolve_chain(ln).chain
        /\ Len(SelectSeq(calls, IsExecuteBranch)) = 1
        /\ IsExecuteBranch(calls[1])
        /\ calls[1] = "execute_internal"
                <=> is_internal(chain[1].name, chain[Len(chain)].name)
        /\ (pc = "returned" /\ inner # <<>> /\ http_calls = <<>>) => result = inner

C3_Witness ==
    /\ pc = "returned"
    /\ calls[1] = "execute_internal"
    /\ tree[ln].service = chain[1].name

\* C4: whenever execute takes the internal path, the handler invoked is the
\* one registered under (chain[0].service, chain[-1].command) of the resolved
\* chain, also for a line whose service is a handle bound by an ancestor.
C4_HandlerOfChainKey ==
    (calls # <<>> /\ calls[1] = "execute_internal" /\ pc # "execute_internal") =>
        /\ Len(handler_calls) = 1
        /\ handler_calls[1].handler =
               internal_services[chain[1].name].commands[chain[Len(chain)].name].handler

\* C5: for a line registered under its own (service, command),
\* execute_internal invokes the registered handler exactly once, with
\* resolved_args whose keys are exactly the arguments declared at
\* registration, each mapped to story.argument_by_name(line, arg) (an empty
\* mapping when none is declared), and returns the handler's value unchanged.
C5_HandlerOnceWithDeclaredArgs ==
    (/\ calls # <<>>
     /\ calls[1] = "execute_internal"
     /\ pc # "execute_internal"
     /\ is_internal(tree[ln].service, tree[ln].command)) =>
        LET command == internal_services[tree[ln].service].commands[tree[ln].command]
            call == handler_calls[1]
        IN  /\ pc \in {"handler", "returned"}
            /\ Len(handler_calls) = 1
            /\ call.handler = command.handler
            /\ call.line = ln
            /\ DOMAIN call.resolved_args = command.arguments
            /\ \A arg \in command.arguments :
                    call.resolved_args[arg] = [line |-> ln, arg |-> arg]
            /\ pc = "returned" => result = inner

C5_Witness ==
    /\ pc = "returned"
    /\ handler_calls # <<>>
    /\ Cardinality(DOMAIN handler_calls[1].resolved_args) = 2
    /\ result = inner

----------------------------------------------------------------------------
(* Properties of resolve_chain (SpecChain) *)

\* The element the claims expect for a line.
OwnElement(line) ==
    IF line.method = "when" THEN [tag |-> "Event", name |-> line.command]
    ELSE [tag |-> "Command", name |-> line.command]

RECURSIVE Ancestors(_)
Ancestors(l) ==
    IF tree[l].parent = NoParent THEN {}
    ELSE {tree[l].parent} \cup Ancestors(tree[l].parent)

\* C7: a returned chain has length >= 2 and exactly one Service, at index 0;
\* each other element stands for one visited line (the starting line or an
\* ancestor of it) and is Event(l.command) exactly when that line's method is
\* when, Command(l.command) otherwise; a line whose method is when yields a
\* chain that contains Event(line.command).
C7_ChainShape ==
    rc_pc = "returned" =>
        /\ Len(rc_chain) >= 2
        /\ \A i \in DOMAIN rc_chain : rc_chain[i].tag = "Service" <=> i = 1
        /\ Len(rc_visited) = Len(rc_chain) - 1
        /\ rc_visited[Len(rc_visited)] = ln
        /\ \A i \in DOMAIN rc_visited :
                /\ rc_visited[i] \in {ln} \cup Ancestors(ln)
                /\ rc_chain[i + 1] = OwnElement(tree[rc_visited[i]])
        /\ tree[ln].method = "when" =>
                \E i \in DOMAIN rc_chain :
                    rc_chain[i] = [tag |-> "Event", name |-> tree[ln].command]

C7_Witness ==
    /\ rc_pc = "returned"
    /\ Len(rc_chain) = 4
    /\ tree[ln].method = "when"
    /\ rc_chain[2].tag = "Event"
    /\ rc_chain[3].tag = "Command"

\* The ancestors of l whose output is the one name l.service.
OwnerCandidates(l) ==
    {a \in Ancestors(l) :
        Len(tree[a].output) = 1 /\ tree[a].output[1] = tree[l].service}

\* a is the candidate nearest to l: every other candidate is above it.
IsNearestOwner(a, l) ==
    /\ a \in OwnerCandidates(l)
    /\ \A b \in OwnerCandidates(l) \ {a} : b \in Ancestors(a)

SonarChain ==
    <<[tag |-> "Service", name |-> "alpine"], [tag |-> "Command", name |-> "echo"],
      [tag |-> "Event", name |-> "foo"], [tag |-> "Command", name |-> "sonar"]>>

\* C8: from a line whose service is neither concrete nor internal,
\* resolve_chain continues at the nearest ancestor whose output has exactly
\* one name, equal to the line's service; in the story of test_resolve_chain
\* the chain of "echo_helper sonar" is [Service(alpine), Command(echo),
\* Event(foo), Command(sonar)], under the when line and under "alpine echo".
C8_NearestOwner ==
    /\ \A i \in 1..(Len(rc_visited) - 1) :
            IsNearestOwner(rc_visited[i], rc_visited[i + 1])
    /\ (rc_pc = "loop" /\ rc_visited # <<>>) => IsNearestOwner(rc_line, rc_visited[1])
    /\ (rc_pc = "returned" /\ tree = TestTree /\ ln \in {4, 5}) => rc_chain = SonarChain

C8_Witness ==
    /\ rc_pc = "returned"
    /\ tree = TestTree
    /\ ln = 4
    /\ rc_visited = <<1, 2, 4>>

IsResolved(l) ==
    \/ tree[l].service \in DOMAIN services
    \/ /\ tree[l].service \in DOMAIN internal_services
       /\ tree[l].command \in DOMAIN internal_services[tree[l].service].commands

\* Every reference met from line l is valid.
RECURSIVE ValidReferences(_)
ValidReferences(l) ==
    \/ IsResolved(l)
    \/ /\ tree[l].parent # NoParent
       /\ \E a \in OwnerCandidates(l) : IsNearestOwner(a, l) /\ ValidReferences(a)

\* C9: resolve_chain ends, and it returns a chain if and only if every
\* reference is valid: each visited line whose service is neither concrete nor
\* internal has a parent link and an ancestor whose one-element output names
\* the service; otherwise it stops with an error.
C9_TerminatesIffValid ==
    /\ [](rc_pc = "returned" => ValidReferences(ln))
    /\ [](rc_pc = "error" => ~ValidReferences(ln))
    /\ <>(rc_pc \in {"returned", "error"})

C9_Witness ==
    /\ rc_pc = "error"
    /\ Len(rc_visited) = 2
    /\ rc_cursor # rc_line

----------------------------------------------------------------------------
(* Properties of execute_http (SpecHttp) *)

DeclaredIn(args, arg) == IF args[arg] = "absent" THEN "requestBody" ELSE args[arg]

BagOf(location) ==
    CASE location = "requestBody" -> "body"
      [] location = "query" -> "query"
      [] location = "path" -> "path"

\* C10: for every request execute_http issues, each declared argument is in
\* exactly one of the bags body, query, path, the one its `in` names (default
\* requestBody); an argument with in=query or in=path is not in the request
\* body, one with in=requestBody is neither in the path nor in the query
\* string of the URL.
C10_ArgumentsPartitioned ==
    \A k \in DOMAIN http_calls :
        LET call == http_calls[k]
            args == command_conf.arguments.in
            InBody(a) == call.kwargs.body # <<>>
                            /\ a \in DOMAIN call.kwargs.body[1].json
            InQuery(a) == a \in DOMAIN call.url.query
            InPath(a) == \E i \in DOMAIN call.url.path :
                            /\ call.url.path[i].kind = "value"
                            /\ call.url.path[i].value.arg = a
        IN  \A a \in DOMAIN args :
                /\ {b \in {"body", "query", "path"} : a \in DOMAIN call.bags[b]}
                        = {BagOf(DeclaredIn(args, a))}
                /\ DeclaredIn(args, a) \in {"query", "path"} => ~InBody(a)
                /\ DeclaredIn(args, a) = "requestBody" => ~InQuery(a) /\ ~InPath(a)

C10_Witness ==
    /\ http_calls # <<>>
    /\ http_calls[1].kwargs.body # <<>>
    /\ DOMAIN http_calls[1].kwargs.body[1].json # {}
    /\ DOMAIN http_calls[1].url.query # {}
    /\ \E a \in DOMAIN command_conf.arguments.in :
            command_conf.arguments.in[a] = "absent"

\* The configuration declares an argument whose `in` is no known location.
HasUnknownIn(conf) ==
    \E a \in DOMAIN conf.arguments.in :
        conf.arguments.in[a] \notin {"absent", "requestBody", "query", "path"}

\* The configured method is POST in some spelling, or none is configured.
IsPost(conf) == conf.http.method \in {"absent", "post", "Post", "POST"}

\* The method is not POST and an argument falls in the request body.
BodyBearingNonPost(conf) ==
    /\ ~IsPost(conf)
    /\ \E a \in DOMAIN conf.arguments.in :
            DeclaredIn(conf.arguments.in, a) = "requestBody"

\* execute_http is past the code that builds the request.
PastRequest == pc \notin {"execute_http", "get_hostname"}

\* C11: when some declared argument has an `in` outside requestBody, query,
\* path, or the method is not POST and an argument falls in the request
\* body, execute_http raises an error and makes no call to the retrying
\* HTTP client.
C11_InvalidConfRaises ==
    (/\ PastRequest
     /\ HasArguments(command_conf)
     /\ HasUnknownIn(command_conf) \/ BodyBearingNonPost(command_conf)) =>
        /\ pc = "raised"
        /\ err # <<>>
        /\ err[1].type = "AsyncyError"
        /\ result = <<>>
        /\ http_calls = <<>>
        /\ \A i \in DOMAIN calls : calls[i] # "fetch_with_retry"

C11_Witness ==
    /\ pc = "raised"
    /\ BodyBearingNonPost(command_conf)
    /\ ~HasUnknownIn(command_conf)
    /\ calls = <<"Containers.get_hostname">>

\* C12: a request of execute_http for a method other than POST carries no
\* body and no Content-Type header; for POST it carries Content-Type
\* 'application/json; charset=utf-8' and the JSON encoding of the body bag,
\* also when the bag is empty; the method sent is the configured method in
\* upper case, POST when none is configured.
C12_BodyAndHeadersByMethod ==
    \A k \in DOMAIN http_calls :
        LET kwargs == http_calls[k].kwargs
            bag == http_calls[k].bags.body
        IN  /\ IsPost(command_conf) =>
                /\ kwargs.method = "POST"
                /\ kwargs.body = <<[json |-> bag]>>
                /\ DOMAIN kwargs.headers = {"Content-Type"}
                /\ kwargs.headers["Content-Type"] = "application/json; charset=utf-8"
            /\ ~IsPost(command_conf) =>
                /\ command_conf.http.method \in {"get", "Get", "GET"}
                /\ kwargs.method = "GET"
                /\ kwargs.body = <<>>
                /\ DOMAIN kwargs.headers = {}

C12_Witness ==
    /\ http_calls # <<>>
    /\ command_conf.http.method = "absent"
    /\ http_calls[1].kwargs.method = "POST"
    /\ http_calls[1].bags.body = <<>>
    /\ http_calls[1].kwargs.body # <<>>

\* The status is in [200, 299].
Is2xx(code) == 200 <= code /\ code <= 299

\* C13: execute_http classifies the response into exactly one outcome: a
\* status in [200, 299] with a Content-Type containing application/json
\* returns the parsed JSON; a status in [200, 299] with another or no
\* Content-Type returns the raw body; any other status raises a fatal error
\* and returns no value.
C13_ResponseClassified ==
    (http_calls # <<>> /\ inner # <<>>) =>
        LET response == inner[1]
            json == response.content_type \notin {"absent", "text/plain"}
        IN  IF Is2xx(response.code)
            THEN /\ pc = "returned"
                 /\ err = <<>>
                 /\ result = IF json
                             THEN <<[kind |-> "parsed", of |-> response.body]>>
                             ELSE <<response.body>>
            ELSE /\ pc = "raised"
                 /\ result = <<>>
                 /\ err # <<>>
                 /\ err[1].type = "AsyncyError"

C13_Witness ==
    /\ pc = "returned"
    /\ inner # <<>>
    /\ inner[1].code = 299
    /\ inner[1].content_type = "application/json; charset=utf-8"
    /\ result = <<[kind |-> "parsed", of |-> inner[1].body]>>

----------------------------------------------------------------------------
(* Properties of execute_inline (SpecInline) *)

\* How many times name is in the history of calls.
Count(name) == Cardinality({i \in DOMAIN calls : calls[i] = name})

\* C14: within one execute_inline call the write to server_request comes
\* before finish is scheduled, and finish never runs inside the call: it
\* runs on a later turn of the I/O loop, after execute_inline has returned.
C14_WriteThenDeferredFinish ==
    /\ [](\A i \in DOMAIN calls :
            /\ calls[i] = "io_loop.add_callback" =>
                    \E j \in 1..(i - 1) : calls[j] = "req.write"
            /\ calls[i] = "req.finish" =>
                    /\ pc = "returned"
                    /\ \E j \in 1..(i - 1) : calls[j] = "io_loop.add_callback")
    /\ [](finished = Count("req.finish"))
    /\ [][pc = "execute_inline" => finished' = finished]_vars

C14_Witness ==
    /\ pc = "returned"
    /\ finished = 1
    /\ calls = <<"req.write", "io_loop.add_callback", "req.finish">>

\* C15: execute_inline writes exactly one message {command, data} plus a
\* newline to server_request, whatever the first chain entry is, and
\* schedules request.finish on the I/O loop if and only if the first chain
\* entry is the service http and the last one is the command finish.
C15_OneWriteFinishOnlyForHttp ==
    (pc # "execute_inline" /\ last(chain).tag = "Command") =>
        LET declared == IF command_conf.arguments.present
                        THEN DOMAIN command_conf.arguments.in ELSE {}
        IN  /\ pc = "returned"
            /\ Len(req_writes) = 1
            /\ Count("req.write") = 1
            /\ req_writes[1].newline
            /\ req_writes[1].json =
                    [command |-> last(chain).name,
                     data |-> [a \in declared |-> argument_by_name(ln, a)]]
            /\ Count("io_loop.add_callback") \in {0, 1}
            /\ Count("io_loop.add_callback") = 1 <=>
                    (chain[1].name = "http" /\ last(chain) = Command("finish"))
            /\ Count("io_loop.add_callback") = 0 => finished = 0 /\ callbacks = <<>>

C15_Witness ==
    /\ pc = "returned"
    /\ chain[1].name = "time-client"
    /\ last(chain) = Command("finish")
    /\ Len(req_writes) = 1
    /\ DOMAIN req_writes[1].json.data # {}
    /\ callbacks = <<>>

----------------------------------------------------------------------------
(* Properties of start_container (Spec) *)

\* C16: start_container returns the handle (http, line.command, gateway,
\* ASYNCY_HTTP_GW_HOST) without any call of Containers.start when the first
\* element of the resolved chain is the service http; for any other first
\* element it calls Containers.start once and returns its result.
C16_GatewayHandleOrStart ==
    /\ Count("Containers.start") <= 1
    /\ container # <<>> =>
            IF resolve_chain(ln).chain[1] = Service("http")
            THEN /\ Count("Containers.start") = 0
                 /\ container = <<[name |-> "http", command |-> tree[ln].command,
                                   container_name |-> "gateway",
                                   hostname |-> "ASYNCY_HTTP_GW_HOST"]>>
            ELSE /\ Count("Containers.start") = 1
                 /\ container[1] \in StartedServices(ln)
    /\ pc = "containers_start" =>
            /\ resolve_chain(ln).chain[1] # Service("http")
            /\ container = <<>>

C16_Witness ==
    /\ container # <<>>
    /\ container[1].container_name = "gateway"
    /\ tree[ln].service = "req"
    /\ Count("start_container") = 1
    /\ Count("Containers.start") = 0

\* A call that reaches a container: Containers.exec, execute_http,
\* execute_inline.
ReachesContainer(c) == c \in {"Containers.exec", "execute_http", "execute_inline"}

\* C17: for every execute_external run that reaches Containers.exec,
\* execute_http or execute_inline, a call of Containers.start for that line
\* has happened earlier in the same run.
C17_ContainersStartFirst ==
    \A i \in DOMAIN calls :
        ReachesContainer(calls[i]) =>
            \E j \in 1..(i - 1) : calls[j] = "Containers.start"

\* C17, amended: for every execute_external run that reaches Containers.exec,
\* execute_http or execute_inline, start_container has been called earlier in
\* the same run, and Containers.start has been called earlier if and only if
\* the first element of the chain is not the service http.
C17_StartContainerFirstStartUnlessHttp ==
    \A i \in DOMAIN calls :
        ReachesContainer(calls[i]) =>
            /\ \E j \in 1..(i - 1) : calls[j] = "start_container"
            /\ (\E j \in 1..(i - 1) : calls[j] = "Containers.start")
                    <=> chain[1] # Service("http")
            /\ Count("Containers.start") = IF chain[1] = Service("http") THEN 0 ELSE 1

C17_Witness ==
    /\ \E i \in DOMAIN calls : calls[i] = "execute_inline"
    /\ chain[1] = Service("http")
    /\ Count("Containers.start") = 0
    /\ req_writes # <<>>

----------------------------------------------------------------------------
(* Properties of when (SpecWhen) *)

\* The body when sent to the broker, decoded from the request.
SentBody == http_calls[1].kwargs.body[1].json

\* C18: when calls app.add_subscription once, with the generated sub_id, the
\* streaming service, line.command and the request body, only after the
\* response of the broker is received, if and only if the status is 2xx; on
\* any other status it raises an error and add_subscription is not called.
C18_SubscribedIffAccepted ==
    /\ inner = <<>> => subscriptions = <<>> /\ Count("add_subscription") = 0
    /\ inner # <<>> =>
            IF Is2xx(inner[1].code)
            THEN /\ pc = "returned"
                 /\ result = <<None>>
                 /\ err = <<>>
                 /\ Count("add_subscription") = 1
                 /\ subscriptions =
                        <<[sub_id |-> SentBody.sub_id, service |-> container[1],
                           event |-> tree[ln].command, body |-> SentBody]>>
                 /\ \E i, j \in DOMAIN calls :
                        /\ i < j
                        /\ calls[i] = "fetch_with_retry"
                        /\ calls[j] = "add_subscription"
            ELSE /\ pc = "raised"
                 /\ err # <<>>
                 /\ err[1].type = "AsyncyError"
                 /\ result = <<>>
                 /\ subscriptions = <<>>
                 /\ Count("add_subscription") = 0

C18_Witness ==
    /\ pc = "returned"
    /\ inner # <<>>
    /\ inner[1].code = 204
    /\ Len(subscriptions) = 1
    /\ subscriptions[1].sub_id \in SubIds

\* C19: when sends the subscription to the broker as an HTTP POST to
\* http://{synapse_host}:{synapse_port}/subscribe with Content-Type
\* application/json, whatever subscribe.method the event declares.
C19_BrokerRequestIsPost ==
    \A k \in DOMAIN http_calls :
        /\ http_calls[k].kwargs.method = "POST"
        /\ http_calls[k].url =
                [hostname |-> "ASYNCY_SYNAPSE_HOST", port |-> "ASYNCY_SYNAPSE_PORT",
                 path |-> "/subscribe"]
        /\ http_calls[k].kwargs.headers["Content-Type"]
                = "application/json; charset=utf-8"

----------------------------------------------------------------------------
(* Properties of the internal registry (SpecRegistry) *)

\* The calls that registered (s, c), by their place in the history.
RegisteredAt(s, c) ==
    {i \in DOMAIN registrations :
        registrations[i].name = s /\ registrations[i].command = c}

\* What the registry holds for (s, c): <<record>>, or <<>>.
Entry(reg, s, c) ==
    IF s \in DOMAIN reg /\ c \in DOMAIN reg[s].commands
    THEN <<reg[s].commands[c]>> ELSE <<>>

\* C21: after any sequence of register_internal calls, is_internal(s, c) is
\* true if and only if some call registered (s, c); the record stored for
\* (s, c) is that of the last such call; and a register_internal call for
\* (s, c) leaves every other (service, command) entry unchanged.
C21_LastRegistrationWins ==
    /\ [](\A s \in RegNames \cup {"file"}, c \in RegCommands \cup {"read"} :
            /\ is_internal(s, c) <=> RegisteredAt(s, c) # {}
            /\ RegisteredAt(s, c) # {} =>
                    LET k == CHOOSE i \in RegisteredAt(s, c) :
                                \A j \in RegisteredAt(s, c) : j <= i
                    IN  Entry(internal_services, s, c) = <<registrations[k].record>>)
    /\ [][registrations' # registrations =>
            LET call == registrations'[Len(registrations')]
            IN  \A s \in RegNames, c \in RegCommands :
                    <<s, c>> # <<call.name, call.command>> =>
                        Entry(internal_services', s, c) = Entry(internal_services, s, c)]_vars

C21_Witness ==
    /\ Len(registrations) = 3
    /\ registrations[1].name = "log" /\ registrations[1].command = "info"
    /\ registrations[2].name = "log" /\ registrations[2].command = "write"
    /\ registrations[3].name = "log" /\ registrations[3].command = "info"
    /\ registrations[3].record # registrations[1].record
    /\ internal_services["log"].commands["info"] = registrations[3].record

----------------------------------------------------------------------------
(* Properties of Service.start and the registry (SpecService) *)

\* Where name is first in the history of calls; past its end when it is not.
FirstAt(name) ==
    IF Count(name) = 0 THEN Len(calls) + 1
    ELSE CHOOSE i \in DOMAIN calls :
            calls[i] = name /\ \A j \in 1..(i - 1) : calls[j] # name

\* C22: the internal registry is written only during startup: in
\* Service.start every register_internal call (File.init, Log.init,
\* Http.init) comes before the HTTP server listens and before applications
\* are initialised, and no dispatch operation changes the registry.
C22_RegistryWrittenAtStartup ==
    /\ [](\A i \in DOMAIN calls :
            calls[i] \in {"File.init", "Log.init", "Http.init", "register_internal"} =>
                /\ i < FirstAt("server.listen")
                /\ i < FirstAt("Apps.init_all")
                /\ i < FirstAt("execute_internal")
                /\ i < FirstAt("execute_external")
                /\ i < FirstAt("fetch_with_retry"))
    /\ []((pc # "idle" \/ start_pc \in {"Apps.init_all", "serving"}) =>
            /\ Count("server.listen") = 1
            /\ Count("register_internal") = 3
            /\ Len(registrations) = 3)
    /\ [][internal_services' # internal_services =>
            /\ start_pc \in {"File.init", "Log.init", "Http.init"}
            /\ pc = "idle" /\ pc' = "idle"
            /\ Count("server.listen") = 0
            /\ Count("Apps.init_all") = 0]_vars
    /\ [][pc # "idle" => internal_services' = internal_services]_vars

C22_Witness ==
    /\ pc = "returned"
    /\ start_pc = "serving"
    /\ handler_calls # <<>>
    /\ Len(registrations) = 3
    /\ is_internal("http", "fetch")

----------------------------------------------------------------------------
(* Properties of retries and errors *)

\* C23: only the HTTP layer retries: execute_http and when each call the
\* retrying HTTP client once per call, with a budget of 3 attempts, and after
\* a failure the core does not run chain resolution, start_container, the
\* transport selection or the subscription request again.
C23_OneFetchThreeAttempts ==
    /\ [](/\ Len(http_calls) <= 1
          /\ Count("fetch_with_retry") = Len(http_calls)
          /\ \A k \in DOMAIN http_calls : http_calls[k].attempts = 3
          /\ Count("execute_external") <= 1
          /\ Count("start_container") <= 1
          /\ Count("Containers.start") <= 1
          /\ Len(SelectSeq(calls, IsTransport)) <= 1
          /\ pc \in {"fetch", "when_fetch"} => Len(http_calls) = 1
          /\ (inner # <<>> /\ http_calls # <<>>) => pc \in {"returned", "raised"})
    /\ [][pc = "raised" =>
            /\ pc' = "raised"
            /\ UNCHANGED <<calls, http_calls, chain, command_conf, container,
                           subscriptions, err>>]_vars

C23_Witness ==
    /\ pc = "raised"
    /\ inner # <<>>
    /\ inner[1].code = 500
    /\ Len(http_calls) = 1
    /\ Count("start_container") = 1
    /\ Count("execute_http") = 1

\* C24: every fatal outcome of a dispatch carries the story and the line:
\* each error raised by execute_external (neither format nor http),
\* execute_http (invalid argument location, body-bearing non-POST, non-2xx
\* response) and when (non-2xx from the broker) is a typed error whose story
\* and line are the dispatching story and line.
C24_FatalCarriesLine ==
    (err # <<>> /\ err[1].type = "AsyncyError") => err[1].line = ln

----------------------------------------------------------------------------
(* Properties of get_command_conf (SpecConf) *)

\* The node at the end of chain ch, as <<node>>; <<>> when a key is missing.
NodeAt(ch) ==
    IF ch[1].name \notin DOMAIN services THEN <<>>
    ELSE LET cmd == services[ch[1].name].actions[ch[2].name]
         IN  IF Len(ch) = 2 THEN <<cmd>>
             ELSE IF cmd.kind # "node" \/ ch[3].name \notin DOMAIN cmd.events THEN <<>>
             ELSE LET acts == cmd.events[ch[3].name]
                  IN  IF Len(ch) = 3 THEN <<[kind |-> "actions", map |-> acts]>>
                      ELSE IF ch[4].name \notin DOMAIN acts THEN <<>>
                      ELSE <<acts[ch[4].name]>>

\* The node is None, or a mapping without keys.
IsNullOrEmpty(node) ==
    \/ node.kind = "null"
    \/ node.kind = "actions" /\ DOMAIN node.map = {}

\* C25: get_command_conf(story, chain) is a pure function of (app.services,
\* chain): it changes neither, repeated calls return the same value, and the
\* value is the node reached by descending the actions of the service on
\* Service(n), the key n on Command(n) and the output actions of event n on
\* Event(n), or an empty mapping when that node is null.
C25_CommandConfIsPure ==
    /\ [](\A i \in DOMAIN result :
            /\ result[i] = result[1]
            /\ NodeAt(chain) # <<>>
            /\ result[i] = IF IsNullOrEmpty(NodeAt(chain)[1])
                           THEN [kind |-> "empty"] ELSE NodeAt(chain)[1])
    /\ [](pc = "raised" => NodeAt(chain) = <<>> /\ result = <<>>)
    /\ [][services' = services /\ chain' = chain]_vars

C25_Witness ==
    /\ Len(result) = 2
    /\ Len(chain) = 4
    /\ NodeAt(chain) = <<[kind |-> "null"]>>
    /\ result[2] = [kind |-> "empty"]
----------------------------------------------------------------------------
(* C26 *)

\* execute runs to completion whenever one of its steps can be taken.
SpecFair == Spec /\ WF_vars(Next)

\* The phase of one execute(story, line) call.  Parsed lies inside the
\* step from fetch to the return of execute_http, lines 257-262.
Phase ==
    CASE pc = "execute" -> "Resolving"
      [] pc \in {"execute_internal", "handler"} -> "InternalHandler"
      [] pc \in {"execute_external", "start_container", "containers_start"} ->
            "ExternalDispatch"
      [] pc = "select_transport" -> "ContainerEnsured"
      [] pc = "Containers.exec" -> "Exec"
      [] pc \in {"execute_http", "get_hostname", "fetch"} -> "HttpRequest"
      [] pc = "execute_inline" -> "InlineWrite"
      [] pc = "returned" -> "Completed"
      [] pc = "raised" ->
            IF err[1].type = "AsyncyError" THEN "Fatal" ELSE "Failed"
      [] OTHER -> "Idle"

\* The transitions of the state machine; HttpRequest -> Completed stands
\* for HttpRequest -> Parsed -> Completed.
ListedTransitions ==
    {<<"Resolving", "InternalHandler">>, <<"Resolving", "ExternalDispatch">>,
     <<"ExternalDispatch", "ContainerEnsured">>,
     <<"ContainerEnsured", "Exec">>, <<"ContainerEnsured", "HttpRequest">>,
     <<"ContainerEnsured", "InlineWrite">>, <<"ContainerEnsured", "Fatal">>,
     <<"HttpRequest", "Completed">>, <<"HttpRequest", "Fatal">>,
     <<"Exec", "Completed">>, <<"InlineWrite", "Completed">>,
     <<"InternalHandler", "Completed">>}

\* The steps that end a call with an error that is not an AsyncyError.
FailureTransitions ==
    {<<"Resolving", "Failed">>, <<"InternalHandler", "Failed">>,
     <<"ExternalDispatch", "Failed">>, <<"HttpRequest", "Failed">>}

\* A step of the call along one of the transitions.
Follows(transitions) ==
    Phase' = Phase \/ <<Phase, Phase'>> \in transitions

\* A call that has ended stays as it ended.
StaysEnded ==
    (Phase \in {"Completed", "Fatal", "Failed"}) => (Phase' = Phase)

----------------------------------------------------------------------------
(* C27 *)

\* The service of the line is a key of app.services and is registered in
\* the Internal Registry for the command of the line.
ConcreteAndInternal ==
    /\ IsConcrete(tree[ln].service)
    /\ is_internal(tree[ln].service, tree[ln].command)

\* C27, as stated: for a line whose service is both concrete and
\* registered for the line's command, execute dispatches through
\* execute_external and no internal handler is invoked.
C27_ConcreteWins ==
    ConcreteAndInternal =>
        /\ Count("execute_internal") = 0
        /\ handler_calls = <<>>
        /\ pc # "execute" => Count("execute_external") = 1

\* C27, amended: for such a line the Internal Registry wins: execute
\* dispatches through execute_internal, the registered handler is invoked
\* for the line, and execute_external, start_container and the transports
\* are never entered.
C27_InternalWins ==
    ConcreteAndInternal =>
        /\ Count("execute_external") = 0
        /\ Count("start_container") = 0
        /\ container = <<>> /\ http_calls = <<>>
        /\ pc # "execute" => Count("execute_internal") = 1
        /\ pc \in {"handler", "returned"} =>
              /\ Len(handler_calls) = 1
              /\ handler_calls[1].line = ln
              /\ handler_calls[1].handler =
                    internal_services[tree[ln].service].commands[tree[ln].command].handler
        /\ pc # "raised"

\* The handler of such a line has returned.
C27_Witness ==
    /\ ConcreteAndInternal
    /\ pc = "returned"
    /\ Len(handler_calls) = 1

----------------------------------------------------------------------------
(* C28 *)

\* C28: a command configuration with an http section (and a path without
\* placeholders) but without 'arguments' is dispatched by execute_http
\* with empty body, query and path bags: once the hostname is known the
\* request has been issued, and only the response can make the call fail.
C28_NoArgumentsStillRequests ==
    (/\ pc \notin {"execute_http", "get_hostname"}
     /\ HasHttp(command_conf) /\ ~HasArguments(command_conf)
     /\ command_conf.http.has_path /\ Fields(command_conf.http.path) = {}) =>
        /\ Len(http_calls) = 1
        /\ http_calls[1].bags = [body |-> <<>>, query |-> <<>>, path |-> <<>>]
        /\ pc = "raised" => err[1].type = "AsyncyError"

----------------------------------------------------------------------------
(* C29 *)

\* The subscriptions recorded under the sub_id of call w.
RecordedFor(w) == {k \in DOMAIN subscriptions : subscriptions[k].sub_id = w.sub_id}

\* C29: when two when calls interleave at their suspension on the broker
\* request, each call that received a 2xx has recorded exactly one
\* subscription, under its own sub_id, with its own service, event and body;
\* a call that did not has recorded none; the sub_ids of the two calls
\* differ; and there are as many add_subscription calls as 2xx responses.
C29_InterleavedWhensKeepTheirOwn ==
    /\ \A i \in WhenCalls :
        LET w == whens[i]
            conf_event == find_event(services[w.s.name], w.s, tree[w.line].command)
        IN  IF w.pc = "returned"
            THEN /\ Is2xx(w.response[1].code)
                 /\ Cardinality(RecordedFor(w)) = 1
                 /\ \A k \in RecordedFor(w) :
                        subscriptions[k] =
                            [sub_id |-> w.sub_id, service |-> w.s,
                             event |-> tree[i].command,
                             body |-> WhenBody(w.s, i, conf_event, w.sub_id)]
            ELSE /\ RecordedFor(w) = {}
                 /\ w.pc = "raised" => ~Is2xx(w.response[1].code)
    /\ \A i, j \in WhenCalls :
        (i # j /\ whens[i].pc # "when" /\ whens[j].pc # "when") =>
            whens[i].sub_id # whens[j].sub_id
    /\ Len(subscriptions) = Cardinality({i \in WhenCalls : whens[i].pc = "returned"})
    /\ Count("add_subscription") = Len(subscriptions)

\* Both calls subscribed; the first call sent its request first and the
\* second call was answered first.
C29_Witness ==
    /\ \A i \in WhenCalls : whens[i].pc = "returned"
    /\ http_calls[1].kwargs.body[1].json.sub_id = whens[1].sub_id
    /\ subscriptions[1].sub_id = whens[2].sub_id
    /\ subscriptions[2].sub_id = whens[1].sub_id

----------------------------------------------------------------------------
(* C30 *)

\* C30: for the server_request of one story, whatever the sequence of
\* execute_inline calls and I/O-loop turns, no req.write comes after a
\* req.finish that has run, and req.finish runs at most once.
C30_NoWriteAfterFinish ==
    /\ \A i, j \in DOMAIN calls :
        (calls[i] = "req.finish" /\ calls[j] = "req.write") => j < i
    /\ Count("req.finish") <= 1

====
